---- MODULE Spec2Model ----
(***************************************************************************)
(* Model of the proof-of-contribution pipeline of my_proof/proof.py:       *)
(* the five verifiers (verify_ownership, assess_quality,                   *)
(* verify_authenticity, verify_time_consistency, verify_uniqueness) as     *)
(* operators, and Proof.generate as a state machine that steps through     *)
(* its statements and mutates the ProofResponse held by the Proof object.  *)
(*                                                                         *)
(* Python values are modelled as follows.                                  *)
(*   - a float is an exact rational <<n, d>> in lowest terms, d > 0;       *)
(*   - a str is a TLA+ string; a JSON value that may have another type is  *)
(*     tagged: Str(s), None, Lst(l), Dict(f);                              *)
(*   - a dict is a function whose DOMAIN is the set of keys present;       *)
(*   - a datetime is a record [aware, t]: t counts seconds, aware tells    *)
(*     whether the value carries a UTC offset;                             *)
(*   - a call that can raise returns a record with a field "raised".       *)
(***************************************************************************)
EXTENDS Integers, Sequences, FiniteSets, TLC

VARIABLES
    files,            \* the input directory: file name -> parsed JSON value (absent or unreadable: not in DOMAIN)
    config,           \* Proof.config
    now,              \* the wall clock, in seconds
    pc,               \* position of the running call
    locals,           \* local variables of Proof.generate
    proof_response,   \* Proof.proof_response
    calls,            \* the verifiers invoked by this run of generate, in order
    raised,           \* whether this run of generate reached its except clause
    prev,             \* the finished earlier run on the same input, or NoRun
    ret               \* the value returned by a verifier called on its own

vars == <<files, config, now, pc, locals, proof_response, calls, raised, prev, ret>>

(***************************************************************************)
(* Bounds of the model.                                                    *)
(***************************************************************************)
MaxPosts == 2
MaxTicks == 1
MaxWalkPosts == 3
MaxMedia == 2

(***************************************************************************)
(* Rational arithmetic (Python floats, taken exactly).                     *)
(***************************************************************************)
Abs(n) == IF n < 0 THEN -n ELSE n

RECURSIVE GCD(_, _)
GCD(a, b) == IF b = 0 THEN a ELSE GCD(b, a % b)

Frac(n, d) ==
    LET g == GCD(Abs(n), d)
    IN  IF n = 0 THEN <<0, 1>> ELSE <<n \div g, d \div g>>

Zero == Frac(0, 1)
One == Frac(1, 1)
RAdd(a, b) == Frac(a[1] * b[2] + b[1] * a[2], a[2] * b[2])
RSub(a, b) == Frac(a[1] * b[2] - b[1] * a[2], a[2] * b[2])
RMul(a, b) == Frac(a[1] * b[1], a[2] * b[2])
RDivN(a, k) == Frac(a[1], a[2] * k)
RLe(a, b) == a[1] * b[2] <= b[1] * a[2]
RLt(a, b) == a[1] * b[2] < b[1] * a[2]
RGe(a, b) == RLe(b, a)
RMin(a, b) == IF RLt(b, a) THEN b ELSE a
RMax(a, b) == IF RLt(a, b) THEN b ELSE a
InUnit(a) == RLe(Zero, a) /\ RLe(a, One)

RECURSIVE RSum(_)
RSum(s) == IF s = <<>> THEN Zero ELSE RAdd(Head(s), RSum(Tail(s)))

(***************************************************************************)
(* Python values.                                                          *)
(***************************************************************************)
None == [none |-> TRUE]
Str(s) == [str |-> s]
Lst(l) == [list |-> l]
Dict(f) == [dict |-> f]
EmptyDict == [k \in {} |-> 0]

IsStr(v) == DOMAIN v = {"str"}
IsLst(v) == DOMAIN v = {"list"}
IsDict(v) == DOMAIN v = {"dict"}

\* bool(v) is False
Falsy(v) == v = None \/ v = Str("") \/ v = Lst(<<>>) \/ v = Dict(EmptyDict)

\* d.get(k, default)
Get(d, k, default) == IF k \in DOMAIN d THEN d[k] ELSE default

\* {**a, **b}
Merge(a, b) ==
    [k \in (DOMAIN a) \cup (DOMAIN b) |-> IF k \in DOMAIN b THEN b[k] ELSE a[k]]

\* s.startswith(p)
StartsWith(s, p) == Len(s) >= Len(p) /\ SubSeq(s, 1, Len(p)) = p

\* sub in s
Contains(sub, s) ==
    \E i \in 1..(Len(s) - Len(sub) + 1) : SubSeq(s, i, i + Len(sub) - 1) = sub

\* what a call hands back: a (score, attributes) pair, or an exception
Returned(score, attributes) ==
    [raised |-> FALSE, score |-> score, attributes |-> attributes]
Raised == [raised |-> TRUE]

\* n as a float
Num(n) == Frac(n, 1)
Percent(x) == RMul(x, Num(100))

(***************************************************************************)
(* Proof._load_json                                                        *)
(***************************************************************************)
Malformed == [malformed |-> TRUE]

_load_json(file_path) ==
    IF file_path \notin DOMAIN files \/ files[file_path] = Malformed
    THEN None
    ELSE files[file_path]

exists(file_path) == file_path \in DOMAIN files

(***************************************************************************)
(* Proof.verify_ownership                                                  *)
(***************************************************************************)
\* the weights of the email and the user id signals exchanged
OwnershipWeightsSwapped(email_match, user_id_score, url_score) ==
    RAdd(RAdd(RMul(Frac(3, 10), IF email_match THEN One ELSE Zero),
              RMul(Frac(4, 10), user_id_score)),
         RMul(Frac(3, 10), url_score))

OwnershipWeights(email_match, user_id_score, url_score) ==
    RAdd(RAdd(RMul(Frac(4, 10), IF email_match THEN One ELSE Zero),
              RMul(Frac(3, 10), user_id_score)),
         RMul(Frac(3, 10), url_score))

verify_ownership(account_data, posts_data) ==
    IF Falsy(account_data) \/ Falsy(posts_data)
    THEN Returned(Zero, EmptyDict)
    ELSE
    LET account == account_data.dict
        posts == posts_data.list
        account_email == Get(account, "email", Str(""))
        account_username == Get(account, "username", Str(""))
        account_user_id == Get(account, "user_id", Str(""))
        config_email == Get(config, "user_email", Str(""))
        email_match ==
            IF Falsy(config_email) THEN TRUE ELSE config_email = account_email
        total_posts == Len(posts)
        post_url(i) == Get(posts[i], "post_url", Str(""))
        user_id_matches ==
            Cardinality({i \in 1..total_posts :
                            Get(posts[i], "user_id", None) = account_user_id})
        url_consistency ==
            Cardinality({i \in 1..total_posts :
                            Contains(account_username.str, post_url(i).str)})
        user_id_score ==
            IF total_posts > 0 THEN Frac(user_id_matches, total_posts) ELSE Zero
        url_score ==
            IF total_posts > 0 THEN Frac(url_consistency, total_posts) ELSE Zero
        ownership_score == OwnershipWeights(email_match, user_id_score, url_score)
        attributes ==
            [email_verified |-> email_match,
             user_id_match_percentage |-> Percent(user_id_score),
             url_consistency_percentage |-> Percent(url_score)]
    IN  \* "account_username in post_url" raises TypeError on a post_url that is no str
        IF \E i \in 1..total_posts : ~IsStr(post_url(i))
        THEN Raised
        ELSE Returned(ownership_score, attributes)

(***************************************************************************)
(* Proof.assess_quality                                                    *)
(***************************************************************************)
min_content_length == 10
ideal_content_length == 280

engagement_score(post) ==
    LET engagement == Get(post, "engagement", EmptyDict)
        total_engagement ==
            Get(engagement, "likes", 0) + Get(engagement, "comments", 0)
            + Get(engagement, "shares", 0) + Get(engagement, "retweets", 0)
        views == Get(engagement, "views", 0)
        engagement_rate ==
            IF views > 0 THEN Frac(total_engagement, views) ELSE Zero
    IN  RMin(RMul(engagement_rate, Num(20)), One)

content_score(content_length) ==
    IF content_length < min_content_length
    THEN Frac(content_length, min_content_length)
    ELSE IF 2 * content_length > 3 * ideal_content_length
         THEN RMax(Frac(7, 10),
                   RSub(One, Frac(2 * content_length - 3 * ideal_content_length,
                                  2 * 1000)))
         ELSE RMin(One, Frac(content_length, ideal_content_length))

media_score(media) ==
    IF Len(media) > 0
    THEN RMin(One, RAdd(Frac(8, 10), RMul(Frac(1, 10), Num(Len(media)))))
    ELSE Frac(5, 10)

QualityWeights(avg_engagement_score, avg_content_score, avg_media_score) ==
    RAdd(RAdd(RMul(Frac(5, 10), avg_engagement_score),
              RMul(Frac(3, 10), avg_content_score)),
         RMul(Frac(2, 10), avg_media_score))

assess_quality(posts_data) ==
    IF Falsy(posts_data)
    THEN Returned(Zero, EmptyDict)
    ELSE
    LET posts == posts_data.list
        total_posts == Len(posts)
        content(i) == Get(posts[i], "content", Str(""))
        engagement_scores == [i \in 1..total_posts |-> engagement_score(posts[i])]
        content_length_scores ==
            [i \in 1..total_posts |-> content_score(Len(content(i).str))]
        media_scores ==
            [i \in 1..total_posts |-> media_score(Get(posts[i], "media", <<>>))]
        avg_engagement_score == RDivN(RSum(engagement_scores), total_posts)
        avg_content_score == RDivN(RSum(content_length_scores), total_posts)
        avg_media_score == RDivN(RSum(media_scores), total_posts)
        quality_score ==
            QualityWeights(avg_engagement_score, avg_content_score, avg_media_score)
        attributes ==
            [engagement_score |-> Percent(avg_engagement_score),
             content_score |-> Percent(avg_content_score),
             media_score |-> Percent(avg_media_score)]
    IN  \* len(content) raises TypeError on a content that is no str
        IF \E i \in 1..total_posts : ~IsStr(content(i))
        THEN Raised
        ELSE Returned(quality_score, attributes)

(***************************************************************************)
(* Proof.verify_authenticity                                               *)
(***************************************************************************)
url_patterns ==
    [X |-> <<"https://x.com/", "https://twitter.com/">>,
     Instagram |-> <<"https://www.instagram.com/", "https://instagram.com/">>,
     LinkedIn |-> <<"https://www.linkedin.com/">>,
     Facebook |-> <<"https://www.facebook.com/", "https://facebook.com/">>]

\* a verdict that accepts the prefixes of every platform of the table
valid_url_any_platform(post) ==
    LET platform == Get(post, "platform", None)
        post_url == Get(post, "post_url", Str(""))
    IN  IF Falsy(platform) \/ Falsy(post_url)
        THEN FALSE
        ELSE \E name \in DOMAIN url_patterns :
                \E k \in 1..Len(url_patterns[name]) :
                    StartsWith(post_url.str, url_patterns[name][k])

\* the loop body's verdict on one post
valid_url(post) ==
    LET platform == Get(post, "platform", None)
        post_url == Get(post, "post_url", Str(""))
    IN  IF Falsy(platform) \/ Falsy(post_url)
        THEN FALSE
        ELSE /\ platform.str \in DOMAIN url_patterns
             /\ \E k \in 1..Len(url_patterns[platform.str]) :
                    StartsWith(post_url.str, url_patterns[platform.str][k])

\* "platform in url_patterns" raises TypeError on an unhashable platform (a list)
unhashable_platform(post) ==
    LET platform == Get(post, "platform", None)
        post_url == Get(post, "post_url", Str(""))
    IN  ~Falsy(platform) /\ ~Falsy(post_url) /\ IsLst(platform)

verify_authenticity(account_data, posts_data) ==
    LET posts == posts_data.list
        total_posts == Len(posts)
        valid_urls == Cardinality({i \in 1..total_posts : valid_url(posts[i])})
        authenticity_score ==
            IF total_posts > 0 THEN Frac(valid_urls, total_posts) ELSE Zero
        attributes ==
            [valid_urls_percentage |->
                IF total_posts > 0
                THEN Percent(Frac(valid_urls, total_posts)) ELSE Zero]
    IN  \* len(posts_data) raises TypeError on None
        IF ~IsLst(posts_data) THEN Raised
        ELSE IF \E i \in 1..total_posts : unhashable_platform(posts[i])
        THEN Raised
        ELSE Returned(authenticity_score, attributes)

(***************************************************************************)
(* dateutil.parser.parse, on the timestamps of the model:                  *)
(* "YYYY-MM-DDTHH:MM:SS", with a trailing "Z" for UTC.  Without the "Z"    *)
(* the datetime is naive.  Any other string raises ParserError, None       *)
(* raises TypeError.  Seconds are counted from 2000-01-01 with every month *)
(* taken as 31 days, which keeps the order of all timestamps and the exact *)
(* difference of two timestamps of the same month, and of the last day of  *)
(* a December and the first of the next January.  The timestamps of the    *)
(* model lie in the years 1940 to 2059, whose seconds fit the integers.    *)
(***************************************************************************)
DigitVal ==
    ("0" :> 0) @@ ("1" :> 1) @@ ("2" :> 2) @@ ("3" :> 3) @@ ("4" :> 4)
    @@ ("5" :> 5) @@ ("6" :> 6) @@ ("7" :> 7) @@ ("8" :> 8) @@ ("9" :> 9)
IsDigit(c) == c \in DOMAIN DigitVal

RECURSIVE NumAt(_, _, _)
NumAt(s, i, j) ==
    IF i > j THEN 0 ELSE 10 * NumAt(s, i, j - 1) + DigitVal[SubSeq(s, j, j)]

parse(timestr) ==
    IF ~IsStr(timestr) THEN Raised
    ELSE
    LET s == timestr.str
        aware == Len(s) = 20 /\ SubSeq(s, 20, 20) = "Z"
        body == IF aware THEN SubSeq(s, 1, 19) ELSE s
        shaped ==
            /\ Len(body) = 19
            /\ SubSeq(body, 5, 5) = "-" /\ SubSeq(body, 8, 8) = "-"
            /\ SubSeq(body, 11, 11) = "T"
            /\ SubSeq(body, 14, 14) = ":" /\ SubSeq(body, 17, 17) = ":"
            /\ \A i \in (1..19) \ {5, 8, 11, 14, 17} : IsDigit(SubSeq(body, i, i))
        year == NumAt(body, 1, 4)
        month == NumAt(body, 6, 7)
        day == NumAt(body, 9, 10)
        hour == NumAt(body, 12, 13)
        minute == NumAt(body, 15, 16)
        second == NumAt(body, 18, 19)
        inrange ==
            /\ year >= 1940 /\ year < 2060
            /\ month \in 1..12 /\ day \in 1..31
            /\ hour < 24 /\ minute < 60 /\ second < 60
        days == ((year - 2000) * 12 + (month - 1)) * 31 + (day - 1)
    IN  IF ~shaped THEN Raised
        ELSE IF ~inrange THEN Raised
        ELSE [raised |-> FALSE,
              value |-> [aware |-> aware,
                         t |-> ((days * 24 + hour) * 60 + minute) * 60 + second]]

(***************************************************************************)
(* Proof.verify_time_consistency                                           *)
(***************************************************************************)
min_reasonable_interval == 10

\* the key of sorted(): parser.parse(x.get("posted_at", "2000-01-01T00:00:00Z"))
sort_key(post) == parse(Get(post, "posted_at", Str("2000-01-01T00:00:00Z")))

\* sorted() raises when a key cannot be computed, and when it has to compare
\* an offset-naive datetime with an offset-aware one
sort_raises(posts) ==
    \/ \E i \in 1..Len(posts) : sort_key(posts[i]).raised
    \/ \E i, j \in 1..Len(posts) :
          sort_key(posts[i]).value.aware # sort_key(posts[j]).value.aware

\* x placed behind every element whose key is not greater: sorted() is stable
RECURSIVE insert_sorted(_, _)
insert_sorted(sorted, x) ==
    IF sorted = <<>> THEN <<x>>
    ELSE IF sort_key(sorted[Len(sorted)]).value.t <= sort_key(x).value.t
         THEN Append(sorted, x)
         ELSE Append(insert_sorted(SubSeq(sorted, 1, Len(sorted) - 1), x),
                     sorted[Len(sorted)])

RECURSIVE sorted_by_date(_)
sorted_by_date(posts) ==
    IF posts = <<>> THEN <<>>
    ELSE insert_sorted(sorted_by_date(SubSeq(posts, 1, Len(posts) - 1)),
                       posts[Len(posts)])

\* datetime.datetime.now(datetime.timezone.utc)
current_time == [aware |-> TRUE, t |-> now]

\* one iteration in which a post that fails to parse clears prev_date
walk_step_clears_prev_date(st, post) ==
    LET parsed == parse(Get(post, "posted_at", None))
        post_date == parsed.value
    IN  IF parsed.raised THEN [st EXCEPT !.prev_date = None]
        ELSE IF ~post_date.aware THEN st
        ELSE [future_dates |->
                  st.future_dates + (IF post_date.t > current_time.t THEN 1 ELSE 0),
              unusual_frequency |->
                  st.unusual_frequency
                  + (IF /\ st.prev_date # None
                        /\ post_date.t - st.prev_date.t < min_reasonable_interval
                     THEN 1 ELSE 0),
              prev_date |-> post_date]

\* one iteration of the loop over sorted_posts; st holds future_dates,
\* unusual_frequency and prev_date
walk_step(st, post) ==
    LET parsed == parse(Get(post, "posted_at", None))
        post_date == parsed.value
    IN  IF parsed.raised THEN st
        \* "post_date > current_time" raises TypeError on a naive post_date
        ELSE IF ~post_date.aware THEN st
        ELSE [future_dates |->
                  st.future_dates + (IF post_date.t > current_time.t THEN 1 ELSE 0),
              unusual_frequency |->
                  st.unusual_frequency
                  + (IF /\ st.prev_date # None
                        /\ post_date.t - st.prev_date.t < min_reasonable_interval
                     THEN 1 ELSE 0),
              prev_date |-> post_date]

RECURSIVE walk(_, _)
walk(sorted_posts, n) ==
    IF n = 0
    THEN [future_dates |-> 0, unusual_frequency |-> 0, prev_date |-> None]
    ELSE walk_step(walk(sorted_posts, n - 1), sorted_posts[n])

time_score_of(total_issues, total_posts) ==
    RMax(Zero, RMin(One, RSub(One, Frac(total_issues, total_posts))))

\* lines 225-278: the verifier past its shortcut for 0 or 1 posts
sort_and_walk(posts) ==
    LET total_posts == Len(posts)
        sorted_posts == sorted_by_date(posts)
        st == walk(sorted_posts, total_posts)
        total_issues == st.future_dates + st.unusual_frequency
        issue_percentage == Percent(Frac(total_issues, total_posts))
    IN  IF sort_raises(posts)
        THEN Returned(Zero, [time_consistency_issues |-> Num(100)])
        ELSE Returned(time_score_of(total_issues, total_posts),
                      [time_consistency_issues |-> issue_percentage,
                       future_dates |-> Num(st.future_dates),
                       unusual_posting_frequency |-> Num(st.unusual_frequency)])

\* the verifier without its shortcut for 0 or 1 posts
verify_time_consistency_no_shortcut(posts_data) ==
    IF ~IsLst(posts_data) THEN Raised ELSE sort_and_walk(posts_data.list)

verify_time_consistency(posts_data) ==
    \* len(posts_data) raises TypeError on None
    IF ~IsLst(posts_data) THEN Raised
    ELSE IF Len(posts_data.list) <= 1
    THEN Returned(One, [time_consistency_issues |-> Num(0)])
    ELSE sort_and_walk(posts_data.list)

(***************************************************************************)
(* str.lower and str.split (the whitespace of the model is the blank)      *)
(***************************************************************************)
UpperCase == "ABCDEFGHIJKLMNOPQRSTUVWXYZ"
LowerCase == "abcdefghijklmnopqrstuvwxyz"
LowerOf ==
    [c \in {SubSeq(UpperCase, k, k) : k \in 1..26} |->
        LET k == CHOOSE k \in 1..26 : SubSeq(UpperCase, k, k) = c
        IN  SubSeq(LowerCase, k, k)]

lower_char(c) == IF c \in DOMAIN LowerOf THEN LowerOf[c] ELSE c

RECURSIVE lower_range(_, _, _)
lower_range(s, i, j) ==
    IF i > j THEN ""
    ELSE IF i = j THEN lower_char(SubSeq(s, i, i))
    ELSE LET m == (i + j) \div 2
         IN  lower_range(s, i, m) \o lower_range(s, m + 1, j)

lower(s) == lower_range(s, 1, Len(s))

\* set(s.split())
split_set(s) ==
    LET cuts == {i \in 1..Len(s) : SubSeq(s, i, i) = " "} \cup {0, Len(s) + 1}
        spans == {c \in cuts \X cuts :
                     /\ c[1] + 1 < c[2]
                     /\ \A k \in cuts : ~(c[1] < k /\ k < c[2])}
    IN  {SubSeq(s, c[1] + 1, c[2] - 1) : c \in spans}

RMaxSet(S) == CHOOSE m \in S : \A x \in S : RLe(x, m)
Max(a, b) == IF a < b THEN b ELSE a

(***************************************************************************)
(* Proof._load_reference_data                                              *)
(***************************************************************************)
_load_reference_data ==
    LET reference_path == Get(config, "reference_data_path", None)
    IN  IF ~Falsy(reference_path) /\ exists(reference_path.str)
        THEN _load_json(reference_path.str)
        ELSE IF exists("reference.json")
        THEN _load_json("reference.json")
        ELSE Lst(<<>>)

(***************************************************************************)
(* Proof._compute_content_similarity                                       *)
(***************************************************************************)
_compute_content_similarity(content, reference_posts) ==
    IF Falsy(reference_posts) \/ Falsy(content)
    THEN Zero
    ELSE
    LET refs == reference_posts.list
        content_words == split_set(lower(content.str))
        ref_words(r) == split_set(lower(Get(refs[r], "content", Str("")).str))
        compared == {r \in 1..Len(refs) : content_words # {} /\ ref_words(r) # {}}
        similarity(r) ==
            Frac(Cardinality(content_words \cap ref_words(r)),
                 Max(Cardinality(content_words), Cardinality(ref_words(r))))
    IN  RMaxSet({Zero} \cup {similarity(r) : r \in compared})

(***************************************************************************)
(* Proof._compute_media_similarity                                         *)
(***************************************************************************)
\* the similarity without the cap at 1.0
_compute_media_similarity_uncapped(media, reference_posts) ==
    IF Falsy(reference_posts) \/ media = <<>>
    THEN Zero
    ELSE
    LET refs == reference_posts.list
        media_urls == {Get(media[k], "url", "") : k \in 1..Len(media)}
        ref_media(r) == Get(refs[r], "media", <<>>)
        media_match_count ==
            Cardinality(UNION {{<<r, k>> : k \in {k \in 1..Len(ref_media(r)) :
                                    Get(ref_media(r)[k], "url", "") \in media_urls}} :
                               r \in 1..Len(refs)})
    IN  Frac(media_match_count, Len(media))

_compute_media_similarity(media, reference_posts) ==
    IF Falsy(reference_posts) \/ media = <<>>
    THEN Zero
    ELSE
    LET refs == reference_posts.list
        media_urls == {Get(media[k], "url", "") : k \in 1..Len(media)}
        ref_media(r) == Get(refs[r], "media", <<>>)
        media_match_count ==
            Cardinality(UNION {{<<r, k>> : k \in {k \in 1..Len(ref_media(r)) :
                                    Get(ref_media(r)[k], "url", "") \in media_urls}} :
                               r \in 1..Len(refs)})
    IN  RMin(One, Frac(media_match_count, Len(media)))

(***************************************************************************)
(* Proof.verify_uniqueness                                                 *)
(***************************************************************************)
UniquenessWeights(avg_content_uniqueness, avg_media_uniqueness) ==
    RAdd(RMul(Frac(7, 10), avg_content_uniqueness),
         RMul(Frac(3, 10), avg_media_uniqueness))

verify_uniqueness(posts_data) ==
    LET posts == posts_data.list
        total_posts == Len(posts)
        reference_posts == _load_reference_data
        content_uniqueness(i) ==
            RSub(One, _compute_content_similarity(Get(posts[i], "content", Str("")),
                                                  reference_posts))
        media_uniqueness(i) ==
            IF ~Falsy(reference_posts)
            THEN RSub(One, _compute_media_similarity(Get(posts[i], "media", <<>>),
                                                     reference_posts))
            ELSE One
        content_uniqueness_scores == [i \in 1..total_posts |-> content_uniqueness(i)]
        media_uniqueness_scores == [i \in 1..total_posts |-> media_uniqueness(i)]
        avg_content_uniqueness == RDivN(RSum(content_uniqueness_scores), total_posts)
        avg_media_uniqueness == RDivN(RSum(media_uniqueness_scores), total_posts)
        uniqueness_score ==
            UniquenessWeights(avg_content_uniqueness, avg_media_uniqueness)
    IN  IF ~IsLst(posts_data) THEN Raised
        ELSE IF total_posts = 0
        THEN Returned(Zero, [uniqueness_score |-> Num(0)])
        ELSE Returned(uniqueness_score,
                      [content_uniqueness |-> Percent(avg_content_uniqueness),
                       media_uniqueness |-> Percent(avg_media_uniqueness),
                       uniqueness_score |-> Percent(uniqueness_score)])

(***************************************************************************)
(* ProofResponse (my_proof/models/proof_response.py): the result object    *)
(* and the values its fields are constructed with.                         *)
(***************************************************************************)
default_dlp_id == 12345

ProofResponse(dlp_id) ==
    [dlp_id |-> dlp_id,
     valid |-> FALSE,
     score |-> Zero,
     authenticity |-> Zero,
     ownership |-> Zero,
     quality |-> Zero,
     uniqueness |-> Zero,
     attributes |-> EmptyDict,
     metadata |-> EmptyDict]

\* Proof.__init__
NewProofResponse == ProofResponse(Get(config, "dlp_id", default_dlp_id))

(***************************************************************************)
(* Proof.generate, one action per statement of its try block.              *)
(***************************************************************************)
NoLocals == EmptyDict
NoRun == None

\* an except clause that forgets to zero the score
ExceptClauseKeepsScore(response) == [response EXCEPT !.valid = FALSE]

\* the except clause of generate, lines 511-514
ExceptClause(response) == [response EXCEPT !.valid = FALSE, !.score = Zero]

Except ==
    /\ proof_response' = ExceptClause(proof_response)
    /\ raised' = TRUE
    /\ pc' = "done"

\* Load without the early return of line 456-458
LoadNoEarlyReturn ==
    /\ pc = "generate"
    /\ locals' = [account_data |-> _load_json("account.json"),
                  posts_data |-> _load_json("posts.json"),
                  metadata |-> _load_json("metadata.json")]
    /\ pc' = "verify_ownership"
    /\ UNCHANGED <<files, config, now, proof_response, calls, raised, prev, ret>>

\* lines 452-458: load the three records; return early when one is missing
Load ==
    /\ pc = "generate"
    /\ LET account_data == _load_json("account.json")
           posts_data == _load_json("posts.json")
           metadata == _load_json("metadata.json")
       IN  /\ locals' = [account_data |-> account_data,
                         posts_data |-> posts_data,
                         metadata |-> metadata]
           /\ pc' = IF Falsy(account_data) \/ Falsy(posts_data)
                    THEN "done"
                    ELSE "verify_ownership"
    /\ UNCHANGED <<files, config, now, proof_response, calls, raised, prev, ret>>

\* a verifier call that also merges the returned attributes into the result
CallVerifierWritesThrough(fn, result, score_name, attrs_name, next) ==
    /\ pc = fn
    /\ calls' = Append(calls, [fn |-> fn, at |-> now])
    /\ IF result.raised
       THEN Except /\ UNCHANGED locals
       ELSE /\ locals' = Merge(locals, (score_name :> result.score)
                                       @@ (attrs_name :> result.attributes))
            /\ proof_response' =
                   [proof_response EXCEPT !.attributes = Merge(@, result.attributes)]
            /\ pc' = next
            /\ UNCHANGED raised
    /\ UNCHANGED <<files, config, now, prev, ret>>

\* a statement "score, attrs = self.verifier(...)"
CallVerifier(fn, result, score_name, attrs_name, next) ==
    /\ pc = fn
    /\ calls' = Append(calls, [fn |-> fn, at |-> now])
    /\ IF result.raised
       THEN Except /\ UNCHANGED locals
       ELSE /\ locals' = Merge(locals, (score_name :> result.score)
                                       @@ (attrs_name :> result.attributes))
            /\ pc' = next
            /\ UNCHANGED <<proof_response, raised>>
    /\ UNCHANGED <<files, config, now, prev, ret>>

\* line 461
VerifyOwnership ==
    CallVerifier("verify_ownership",
                 verify_ownership(locals.account_data, locals.posts_data),
                 "ownership_score", "ownership_attrs", "assess_quality")

\* line 464
AssessQuality ==
    CallVerifier("assess_quality", assess_quality(locals.posts_data),
                 "quality_score", "quality_attrs", "verify_authenticity")

\* line 467
VerifyAuthenticity ==
    CallVerifier("verify_authenticity",
                 verify_authenticity(locals.account_data, locals.posts_data),
                 "authenticity_score", "authenticity_attrs",
                 "verify_time_consistency")

\* line 470
VerifyTimeConsistency ==
    CallVerifier("verify_time_consistency",
                 verify_time_consistency(locals.posts_data),
                 "time_score", "time_attrs", "verify_uniqueness")

\* line 473
VerifyUniqueness ==
    CallVerifier("verify_uniqueness", verify_uniqueness(locals.posts_data),
                 "uniqueness_score", "uniqueness_attrs", "attributes")

\* a statement "self.proof_response.<field> = value"
Assign(at, response, next) ==
    /\ pc = at
    /\ proof_response' = response
    /\ pc' = next
    /\ UNCHANGED <<files, config, now, locals, calls, raised, prev, ret>>

\* lines 476-477
combined_attributes ==
    Merge(Merge(Merge(Merge(locals.ownership_attrs, locals.quality_attrs),
                      locals.authenticity_attrs),
                locals.time_attrs),
          locals.uniqueness_attrs)

SetAttributes ==
    Assign("attributes",
           [proof_response EXCEPT !.attributes = combined_attributes],
           "ownership")

\* line 480
SetOwnership ==
    Assign("ownership",
           [proof_response EXCEPT !.ownership = locals.ownership_score],
           "quality")

\* line 481
SetQuality ==
    Assign("quality",
           [proof_response EXCEPT !.quality = locals.quality_score],
           "uniqueness")

\* line 482
SetUniqueness ==
    Assign("uniqueness",
           [proof_response EXCEPT !.uniqueness = locals.uniqueness_score],
           "authenticity")

\* the authenticity field without the time score folded in
combined_authenticity_url_only(authenticity_score, time_score) ==
    authenticity_score

\* line 485
combined_authenticity(authenticity_score, time_score) ==
    RDivN(RAdd(authenticity_score, time_score), 2)

SetAuthenticity ==
    Assign("authenticity",
           [proof_response EXCEPT !.authenticity =
               combined_authenticity(locals.authenticity_score, locals.time_score)],
           "score")

\* the overall score added to the score the result already holds
overall_score_accumulated(ownership_score, quality_score, authenticity, uniqueness_score) ==
    RAdd(proof_response.score,
         RAdd(RAdd(RAdd(RMul(Frac(35, 100), ownership_score),
                        RMul(Frac(25, 100), quality_score)),
                   RMul(Frac(25, 100), authenticity)),
              RMul(Frac(15, 100), uniqueness_score)))

\* lines 488-493
overall_score(ownership_score, quality_score, authenticity, uniqueness_score) ==
    RAdd(RAdd(RAdd(RMul(Frac(35, 100), ownership_score),
                   RMul(Frac(25, 100), quality_score)),
              RMul(Frac(25, 100), authenticity)),
         RMul(Frac(15, 100), uniqueness_score))

SetScore ==
    Assign("score",
           [proof_response EXCEPT !.score =
               overall_score(locals.ownership_score, locals.quality_score,
                             proof_response.authenticity, locals.uniqueness_score)],
           "valid")

\* is_valid without the gate on the time score
is_valid_no_time_gate(ownership_score, quality_score, authenticity_score, time_score, uniqueness_score) ==
    /\ RGe(ownership_score, Frac(7, 10))
    /\ RGe(quality_score, Frac(5, 10))
    /\ RGe(authenticity_score, Frac(9, 10))
    /\ RGe(uniqueness_score, Frac(6, 10))

\* lines 496-502
is_valid(ownership_score, quality_score, authenticity_score, time_score, uniqueness_score) ==
    /\ RGe(ownership_score, Frac(7, 10))
    /\ RGe(quality_score, Frac(5, 10))
    /\ RGe(authenticity_score, Frac(9, 10))
    /\ RGe(time_score, Frac(8, 10))
    /\ RGe(uniqueness_score, Frac(6, 10))

SetValid ==
    Assign("valid",
           [proof_response EXCEPT !.valid =
               is_valid(locals.ownership_score, locals.quality_score,
                        locals.authenticity_score, locals.time_score,
                        locals.uniqueness_score)],
           "metadata")

\* lines 505-509; metadata.get raises AttributeError on a record that is no dict
SetMetadata ==
    /\ pc = "metadata"
    /\ LET metadata == locals.metadata
           config_dlp_id == Get(config, "dlp_id", default_dlp_id)
           dlp_id == IF Falsy(metadata)
                     THEN config_dlp_id
                     ELSE Get(metadata.dict, "dlp_id", config_dlp_id)
       IN  IF ~Falsy(metadata) /\ ~IsDict(metadata)
           THEN Except
           ELSE /\ proof_response' =
                       [proof_response EXCEPT !.metadata =
                           [dlp_id |-> dlp_id, timestamp |-> now]]
                /\ pc' = "done"
                /\ UNCHANGED raised
    /\ UNCHANGED <<files, config, now, locals, calls, prev, ret>>

\* the clock when the program starts
Now0 == parse(Str("2024-01-01T00:00:25Z")).value.t

Next ==
    \/ Load
    \/ VerifyOwnership
    \/ AssessQuality
    \/ VerifyAuthenticity
    \/ VerifyTimeConsistency
    \/ VerifyUniqueness
    \/ SetAttributes
    \/ SetOwnership
    \/ SetQuality
    \/ SetUniqueness
    \/ SetAuthenticity
    \/ SetScore
    \/ SetValid
    \/ SetMetadata

(***************************************************************************)
(* The inputs of the model: the files of the input directory and the       *)
(* configuration.  A file is Missing, Malformed (it exists and is no JSON) *)
(* or holds a JSON value.                                                  *)
(***************************************************************************)
SeqsUpTo(S, n) == UNION {[1..k -> S] : k \in 0..n}

\* a dict or a directory built from optional entries; Missing: no such entry
Missing == [missing |-> TRUE]
Entry(key, value) == IF value = Missing THEN EmptyDict ELSE key :> value
InputDir(account, posts, metadata, reference) ==
    Entry("account.json", account) @@ Entry("posts.json", posts)
    @@ Entry("metadata.json", metadata) @@ Entry("reference.json", reference)

Alice ==
    Dict([email |-> Str("alice@example.com"),
          username |-> Str("alice"),
          user_id |-> Str("u1")])

\* a post of Alice's that passes every check
GoodPost ==
    [post_id |-> Str("p1"),
     user_id |-> Str("u1"),
     post_url |-> Str("https://x.com/alice/status/1"),
     platform |-> Str("X"),
     content |-> Str("Hello world from Alice"),
     posted_at |-> Str("2024-01-01T00:00:00Z"),
     engagement |-> [likes |-> 4, comments |-> 1, views |-> 100],
     media |-> <<[url |-> "https://img.example/m1"]>>]

With(post, key, value) == [post EXCEPT ![key] = value]
Without(post, key) == [k \in (DOMAIN post) \ {key} |-> post[k]]

LaterPost ==
    With(With(GoodPost, "posted_at", Str("2024-01-01T00:00:21Z")),
         "content", Str("Model checking is fun"))
FuturePost == With(GoodPost, "posted_at", Str("2024-01-01T00:00:26Z"))
FakeUrlPost == With(GoodPost, "post_url", Str("https://fake.com/alice"))
OtherUserPost ==
    With(With(GoodPost, "user_id", Str("u2")),
         "post_url", Str("https://x.com/bob/status/9"))
PlainPost ==
    Without(Without(With(GoodPost, "content", Str("")), "engagement"), "media")
NegativeLikesPost == With(GoodPost, "engagement", [likes |-> -1, views |-> 1])
CopiedPost ==
    With(With(GoodPost, "content", Str("hello WORLD from bob")),
         "media", <<[url |-> "https://img.example/r1"]>>)
UnparsablePost == With(GoodPost, "posted_at", Str("not-a-date"))
NullUrlPost == With(GoodPost, "post_url", None)
NullContentPost == With(GoodPost, "content", None)
ListPlatformPost == With(GoodPost, "platform", Lst(<<"X">>))

PostSamples ==
    {GoodPost, LaterPost, FuturePost, FakeUrlPost, OtherUserPost, PlainPost,
     NegativeLikesPost, CopiedPost, UnparsablePost, NullUrlPost,
     NullContentPost, ListPlatformPost}

ReferencePost ==
    [content |-> Str("Hello world from Bob"),
     media |-> <<[url |-> "https://img.example/r1"]>>]

AccountFiles == {Missing, Dict(EmptyDict), Alice}
PostsFiles ==
    {Missing, Malformed} \cup {Lst(posts) : posts \in SeqsUpTo(PostSamples, MaxPosts)}
MetadataFiles == {Missing, Dict([dlp_id |-> 99]), Lst(<<"x">>)}
ReferenceFiles == {Missing, Lst(<<ReferencePost>>)}
\* load_config with USER_EMAIL unset
Configs == {[dlp_id |-> 7, user_email |-> None]}

\* the state after Proof(config) is constructed, before generate is called
Constructed ==
    /\ now = Now0
    /\ pc = "generate"
    /\ locals = NoLocals
    /\ proof_response = NewProofResponse
    /\ calls = <<>>
    /\ raised = FALSE
    /\ prev = NoRun
    /\ ret = None

Init ==
    /\ \E account \in AccountFiles, posts \in PostsFiles,
          metadata \in MetadataFiles, reference \in ReferenceFiles :
          files = InputDir(account, posts, metadata, reference)
    /\ config \in Configs
    /\ Constructed

Spec == Init /\ [][Next]_vars

(***************************************************************************)
(* The pipeline run twice on the same input, with a clock that advances:   *)
(* generate is called again on the same Proof object, or main's run()      *)
(* constructs a new Proof and calls its generate.                          *)
(***************************************************************************)
\* the wall clock advances; generate reads it in verify_time_consistency
\* (line 233) and for the timestamp of the metadata (line 508)
Tick ==
    /\ pc \in {"verify_time_consistency", "metadata"}
    /\ now < Now0 + MaxTicks
    /\ now' = now + 1
    /\ UNCHANGED <<files, config, pc, locals, proof_response, calls, raised, prev, ret>>

\* what is kept of the first run: its result and its calls
Finished == [response |-> proof_response, calls |-> calls]

\* a second call of generate on the same Proof object
GenerateAgain ==
    /\ pc = "done"
    /\ prev = NoRun
    /\ prev' = Finished
    /\ pc' = "generate"
    /\ locals' = NoLocals
    /\ calls' = <<>>
    /\ raised' = FALSE
    /\ UNCHANGED <<files, config, now, proof_response, ret>>

\* run() once more: Proof(config) is constructed anew, then generate is called
RunAgain ==
    /\ pc = "done"
    /\ prev = NoRun
    /\ prev' = Finished
    /\ pc' = "generate"
    /\ locals' = NoLocals
    /\ calls' = <<>>
    /\ raised' = FALSE
    /\ proof_response' = NewProofResponse
    /\ UNCHANGED <<files, config, now, ret>>

TwiceSamples == {GoodPost, LaterPost, FuturePost, CopiedPost, ListPlatformPost}

InitTwice ==
    /\ \E account \in {Missing, Alice},
          posts \in {Lst(posts) : posts \in SeqsUpTo(TwiceSamples, MaxPosts)},
          metadata \in MetadataFiles, reference \in ReferenceFiles :
          files = InputDir(account, posts, metadata, reference)
    /\ config \in Configs
    /\ Constructed

NextTwice ==
    \/ Next
    \/ Tick
    \/ GenerateAgain
    \/ RunAgain

SpecTwice == InitTwice /\ [][NextTwice]_vars

(***************************************************************************)
(* The verifiers called on their own: the arguments are held in locals,    *)
(* the returned pair in ret.                                               *)
(***************************************************************************)
Arguments(account_data, posts_data) ==
    [account_data |-> account_data, posts_data |-> posts_data]

CalledWith(arguments, configs) ==
    /\ files = EmptyDict
    /\ config \in configs
    /\ now = Now0
    /\ pc = "call"
    /\ locals \in arguments
    /\ proof_response = NewProofResponse
    /\ calls = <<>>
    /\ raised = FALSE
    /\ prev = NoRun
    /\ ret = None

Return(result) ==
    /\ pc = "call"
    /\ ret' = result
    /\ pc' = "returned"
    /\ UNCHANGED <<files, config, now, locals, proof_response, calls, raised, prev>>

\* the clock before the call
TickBeforeCall ==
    /\ pc = "call"
    /\ now < Now0 + MaxTicks
    /\ now' = now + 1
    /\ UNCHANGED <<files, config, pc, locals, proof_response, calls, raised, prev, ret>>

\* verify_ownership
OwnershipPosts ==
    {Entry("user_id", user_id) @@ Entry("post_url", post_url) :
        user_id \in {Missing, Str("u1"), Str("u2")},
        post_url \in {Missing, Str(""), Str("https://x.com/alice/status/1"),
                      Str("https://x.com/bob/status/9")}}
OwnershipAccounts ==
    {None, Dict(EmptyDict), Alice, Dict([user_id |-> Str("u1")]),
     Dict([email |-> Str("bob@example.com"), username |-> Str("bob"),
           user_id |-> Str("u2")])}
OwnershipConfigs ==
    {[dlp_id |-> 7] @@ Entry("user_email", email) :
        email \in {Missing, None, Str(""), Str("alice@example.com"),
                   Str("bob@example.com")}}

InitOwnership ==
    CalledWith({Arguments(account_data, posts_data) :
                   account_data \in OwnershipAccounts,
                   posts_data \in {None} \cup
                       {Lst(posts) : posts \in SeqsUpTo(OwnershipPosts, MaxPosts)}},
               OwnershipConfigs)

CallVerifyOwnership ==
    Return(verify_ownership(locals.account_data, locals.posts_data))

SpecOwnership == InitOwnership /\ [][CallVerifyOwnership]_vars

\* verify_authenticity
AuthenticityPosts ==
    {Entry("platform", platform) @@ Entry("post_url", post_url) :
        platform \in {Missing, Str(""), Str("X"), Str("x"), Str("Instagram"),
                      Str("LinkedIn"), Str("Facebook"), Str("TikTok")},
        post_url \in {Missing, Str(""),
                      Str("https://x.com/alice/status/1"),
                      Str("https://twitter.com/alice/status/1"),
                      Str("http://x.com/alice/status/1"),
                      Str("https://x.com"),
                      Str("https://fake.com/alice"),
                      Str("https://www.instagram.com/p/1"),
                      Str("https://instagram.com/p/1"),
                      Str("https://www.linkedin.com/in/alice"),
                      Str("https://linkedin.com/in/alice"),
                      Str("https://www.facebook.com/alice"),
                      Str("https://facebook.com/alice")}}
AuthenticityPool ==
    {[platform |-> Str("X"), post_url |-> Str("https://x.com/alice/status/1")],
     [platform |-> Str("X"), post_url |-> Str("https://fake.com/alice")],
     [platform |-> Str("Instagram"), post_url |-> Str("https://x.com/alice/status/1")],
     [platform |-> Str("TikTok"), post_url |-> Str("https://www.facebook.com/alice")],
     [post_url |-> Str("https://x.com/alice/status/1")],
     [platform |-> Str("Facebook")]}

InitAuthenticity ==
    CalledWith({Arguments(Alice, Lst(posts)) :
                   posts \in {<<post>> : post \in AuthenticityPosts} \cup
                             SeqsUpTo(AuthenticityPool, MaxPosts)},
               Configs)

CallVerifyAuthenticity ==
    Return(verify_authenticity(locals.account_data, locals.posts_data))

SpecAuthenticity == InitAuthenticity /\ [][CallVerifyAuthenticity]_vars

\* verify_time_consistency
TimePosts ==
    {Entry("post_id", Str("p")) @@ Entry("posted_at", posted_at) :
        posted_at \in {Missing, Str("not-a-date"),
                       Str("2024-01-01T00:00:00Z"), Str("2024-01-01T00:00:01Z"),
                       Str("2024-01-01T00:00:21Z"), Str("2024-01-01T00:00:26Z"),
                       Str("2024-01-01T00:00:00"), Str("2024-01-01T00:00:01")}}

\* posts around the default date of the sort key, one without posted_at
WalkPosts ==
    {Entry("post_id", Str("p")) @@ Entry("posted_at", posted_at) :
        posted_at \in {Missing,
                       Str("1999-12-31T23:59:55Z"), Str("2000-01-01T00:00:03Z"),
                       Str("2000-01-01T00:00:06Z"), Str("2024-01-01T00:00:26Z")}}

InitTime ==
    CalledWith({Arguments(Alice, Lst(posts)) :
                   posts \in SeqsUpTo(TimePosts, MaxPosts) \cup
                             SeqsUpTo(WalkPosts, MaxWalkPosts)},
               Configs)

CallVerifyTimeConsistency ==
    Return(verify_time_consistency(locals.posts_data))

NextTime ==
    \/ CallVerifyTimeConsistency
    \/ TickBeforeCall

SpecTime == InitTime /\ [][NextTime]_vars

\* _compute_media_similarity and verify_uniqueness on one post with media
MediaItems ==
    {[url |-> "https://img.example/m1"], [url |-> "https://img.example/r1"],
     [alt |-> "no url"]}

MediaReferencePosts ==
    {[content |-> Str("Hello world from Bob")],
     [media |-> <<[url |-> "https://img.example/r1"]>>],
     [media |-> <<[url |-> "https://img.example/r1"],
                  [url |-> "https://img.example/r1"]>>],
     [media |-> <<[url |-> "https://img.example/r1"],
                  [url |-> "https://img.example/m1"]>>],
     [media |-> <<[alt |-> "no url"]>>]}

MediaReferenceFiles ==
    {Missing} \cup {Lst(refs) : refs \in SeqsUpTo(MediaReferencePosts, MaxPosts)}

InitMedia ==
    /\ \E reference \in MediaReferenceFiles :
          files = InputDir(Missing, Missing, Missing, reference)
    /\ config \in Configs
    /\ now = Now0
    /\ pc = "call"
    /\ \E media \in SeqsUpTo(MediaItems, MaxMedia) :
          locals = [media |-> media, posts_data |-> Lst(<<[media |-> media]>>)]
    /\ proof_response = NewProofResponse
    /\ calls = <<>>
    /\ raised = FALSE
    /\ prev = NoRun
    /\ ret = None

CallComputeMediaSimilarity ==
    Return([similarity |->
               _compute_media_similarity(locals.media, _load_reference_data)])

CallVerifyUniqueness ==
    Return(verify_uniqueness(locals.posts_data))

NextMedia ==
    \/ CallComputeMediaSimilarity
    \/ CallVerifyUniqueness

SpecMedia == InitMedia /\ [][NextMedia]_vars

(***************************************************************************)
(* Claims about Proof.generate, checked under Spec.                        *)
(***************************************************************************)
\* generate has run to its return without an early return or an exception
Completed == pc = "done" /\ ~raised /\ calls # <<>>

FailedGates ==
    {g \in {"ownership", "quality", "authenticity", "time", "uniqueness"} :
        \/ g = "ownership" /\ RLt(locals.ownership_score, Frac(7, 10))
        \/ g = "quality" /\ RLt(locals.quality_score, Frac(5, 10))
        \/ g = "authenticity" /\ RLt(locals.authenticity_score, Frac(9, 10))
        \/ g = "time" /\ RLt(locals.time_score, Frac(8, 10))
        \/ g = "uniqueness" /\ RLt(locals.uniqueness_score, Frac(6, 10))}

\* C1: once generate has assigned the valid flag (and has not failed
\* afterwards), valid is true exactly when no gate fails: ownership >= 0.7,
\* quality >= 0.5, raw URL authenticity >= 0.9, raw time score >= 0.8 and
\* uniqueness >= 0.6.
C1_ValidIffAllGates ==
    (pc = "metadata" \/ Completed) => (proof_response.valid <=> FailedGates = {})

\* C1 witness: a completed run where the URL authenticity gate alone fails
\* and the weighted overall score is at least 0.8, with valid = false.
C1_SingleGateFailsWitness ==
    /\ Completed
    /\ FailedGates = {"authenticity"}
    /\ RGe(proof_response.score, Frac(8, 10))
    /\ ~proof_response.valid

ScoreFields == {"ownership", "quality", "authenticity", "uniqueness", "score"}

\* C2: every score field of the result returned by generate lies in [0,1].
C2_ScoresInUnitInterval ==
    pc = "done" => \A f \in ScoreFields : InUnit(proof_response[f])

\* C3: when the loaded account or the loaded posts are missing or empty,
\* generate goes from its call straight to its return: no verifier is
\* invoked, the except clause is not reached, and the result object is the
\* one Proof.__init__ built (valid = false, all scores 0, no attributes).
C3_ShortCircuitOnMissingInput ==
    (Falsy(_load_json("account.json")) \/ Falsy(_load_json("posts.json"))) =>
        /\ pc \in {"generate", "done"}
        /\ calls = <<>>
        /\ ~raised
        /\ proof_response = NewProofResponse
        /\ ~proof_response.valid
        /\ \A f \in ScoreFields : proof_response[f] = Zero
        /\ proof_response.attributes = EmptyDict

\* C3 witness: generate has returned early on an empty account record with
\* a non-empty posts sequence loaded.
C3_ShortCircuitWitness ==
    /\ pc = "done"
    /\ locals # NoLocals
    /\ locals.account_data = Dict(EmptyDict)
    /\ ~Falsy(locals.posts_data)

\* C4: a step of generate that reaches the except clause ends the call with
\* valid = false and score = 0 and leaves every other field of the result
\* as it was when the failure occurred; afterwards generate takes no step.
C4_FailClosedKeepsOtherFields ==
    [][/\ (raised' /\ ~raised) =>
            /\ pc' = "done"
            /\ proof_response'.valid = FALSE
            /\ proof_response'.score = Zero
            /\ \A f \in (DOMAIN proof_response) \ {"valid", "score"} :
                   proof_response'[f] = proof_response[f]
       /\ (raised /\ pc = "done") =>
            \/ proof_response' = proof_response /\ calls' = calls /\ pc' = pc
            \/ pc' = "generate"
      ]_vars

\* C4 witness: generate has returned after verify_authenticity, its third
\* verifier, raised.
C4_FailureInVerifierWitness ==
    /\ pc = "done"
    /\ raised
    /\ Len(calls) = 3
    /\ ~proof_response.valid
    /\ proof_response.score = Zero

\* C7: after the score is assigned, the authenticity field is the mean of the
\* raw URL authenticity score and the raw time score, and the overall score
\* is 0.35*ownership + 0.25*quality + 0.25*authenticity + 0.15*uniqueness;
\* the result has no field for the time score itself.
C7_CombinedAuthenticityAndScore ==
    (pc \in {"valid", "metadata"} \/ Completed) =>
        /\ RMul(Num(2), proof_response.authenticity)
               = RAdd(locals.authenticity_score, locals.time_score)
        /\ RMul(Num(100), proof_response.score)
               = RAdd(RAdd(RMul(Num(35), locals.ownership_score),
                           RMul(Num(25), locals.quality_score)),
                      RAdd(RMul(Num(25), proof_response.authenticity),
                           RMul(Num(15), locals.uniqueness_score)))
        /\ proof_response.ownership = locals.ownership_score
        /\ proof_response.quality = locals.quality_score
        /\ proof_response.uniqueness = locals.uniqueness_score
        /\ DOMAIN proof_response =
               {"dlp_id", "valid", "score", "authenticity", "ownership",
                "quality", "uniqueness", "attributes", "metadata"}

\* C7 witness: a completed run whose raw URL authenticity score and raw time
\* score differ, so that the reported authenticity is neither of them.
C7_CombinationWitness ==
    /\ Completed
    /\ locals.authenticity_score = One
    /\ locals.time_score = Frac(1, 2)
    /\ proof_response.authenticity = Frac(3, 4)
    /\ proof_response.score # Zero

\* the posted_at of the post is present and dateutil cannot parse it
Unparsable(post) == "posted_at" \in DOMAIN post /\ parse(post.posted_at).raised

\* C5 as claimed: for a single post whose posted_at cannot be parsed, the
\* time-consistency verifier returns 0.0 with time_consistency_issues = 100,
\* and the result of generate has valid = false.
C5_SinglePostUnparsableScoresZero ==
    ("time_score" \in DOMAIN locals
        /\ Len(locals.posts_data.list) = 1
        /\ Unparsable(locals.posts_data.list[1])) =>
        /\ locals.time_score = Zero
        /\ locals.time_attrs = [time_consistency_issues |-> Num(100)]
        /\ (pc = "done" => ~proof_response.valid)

\* C5 as amended: for a single post whose posted_at cannot be parsed, the
\* verifier returns 1.0 with time_consistency_issues = 0; for two or more
\* posts one of which has a posted_at that cannot be parsed it returns 0.0
\* with time_consistency_issues = 100, and generate returns valid = false.
C5_UnparsableTimestamp ==
    "time_score" \in DOMAIN locals =>
        LET posts == locals.posts_data.list
        IN  /\ (Len(posts) = 1 /\ Unparsable(posts[1])) =>
                   /\ locals.time_score = One
                   /\ locals.time_attrs = [time_consistency_issues |-> Num(0)]
            /\ (Len(posts) >= 2 /\ \E i \in 1..Len(posts) : Unparsable(posts[i])) =>
                   /\ locals.time_score = Zero
                   /\ locals.time_attrs = [time_consistency_issues |-> Num(100)]
                   /\ (pc = "done" => ~proof_response.valid)

\* C5 witness: generate has completed on a single post whose posted_at
\* cannot be parsed, and its result is valid.
C5_SingleUnparsableValidWitness ==
    /\ Completed
    /\ Len(locals.posts_data.list) = 1
    /\ Unparsable(locals.posts_data.list[1])
    /\ locals.time_score = One
    /\ proof_response.valid

(***************************************************************************)
(* Claims about two runs of the pipeline, checked under SpecTwice.         *)
(***************************************************************************)
\* the clock values verify_time_consistency was called at
TimeReads(cs) ==
    {cs[i].at : i \in {i \in 1..Len(cs) : cs[i].fn = "verify_time_consistency"}}

\* C6: when generate has run twice on the same files and configuration and
\* the time verifier read the same clock value in both runs, the two
\* results agree on ownership, quality, authenticity, uniqueness, score,
\* attributes, valid and dlp_id; they may differ in the metadata timestamp
\* only.
C6_SecondRunGivesSameResult ==
    (pc = "done" /\ prev # NoRun /\ TimeReads(prev.calls) = TimeReads(calls)) =>
        /\ \A f \in (DOMAIN proof_response) \ {"metadata"} :
               proof_response[f] = prev.response[f]
        /\ DOMAIN proof_response.metadata = DOMAIN prev.response.metadata
        /\ \A k \in (DOMAIN proof_response.metadata) \ {"timestamp"} :
               proof_response.metadata[k] = prev.response.metadata[k]
        /\ [i \in 1..Len(calls) |-> calls[i].fn]
               = [i \in 1..Len(prev.calls) |-> prev.calls[i].fn]

\* C6 witness: two completed runs that read the same clock in the time
\* verifier, give a valid result, and differ in the metadata timestamp.
C6_TwoRunsWitness ==
    /\ pc = "done"
    /\ prev # NoRun
    /\ Completed
    /\ TimeReads(prev.calls) = TimeReads(calls)
    /\ proof_response.valid
    /\ proof_response.metadata.timestamp # prev.response.metadata.timestamp

(***************************************************************************)
(* Claims about verify_authenticity, checked under SpecAuthenticity.       *)
(***************************************************************************)
\* the prefixes the claim registers for a platform name
RegisteredPrefixes(name) ==
    CASE name = "X" -> {"https://x.com/", "https://twitter.com/"}
      [] name = "Instagram" -> {"https://www.instagram.com/", "https://instagram.com/"}
      [] name = "LinkedIn" -> {"https://www.linkedin.com/"}
      [] name = "Facebook" -> {"https://www.facebook.com/", "https://facebook.com/"}
      [] OTHER -> {}

CountsAsValid(post) ==
    /\ "platform" \in DOMAIN post /\ post.platform # Str("")
    /\ "post_url" \in DOMAIN post /\ post.post_url # Str("")
    /\ \E prefix \in RegisteredPrefixes(post.platform.str) :
          /\ Len(post.post_url.str) >= Len(prefix)
          /\ \A k \in 1..Len(prefix) :
                SubSeq(post.post_url.str, k, k) = SubSeq(prefix, k, k)

\* C8: verify_authenticity returns valid_count / total_posts (0 without
\* posts), where a post is valid exactly when its platform and its post_url
\* are non-empty and the URL starts with a prefix registered for that exact
\* platform name; every other post counts in total_posts only.
C8_AuthenticityIsValidFraction ==
    pc = "returned" =>
        LET posts == locals.posts_data.list
            valid_count == Cardinality({i \in 1..Len(posts) : CountsAsValid(posts[i])})
        IN  /\ ~ret.raised
            /\ Len(posts) = 0 => ret.score = Zero
            \* score = valid_count / total_posts, cross-multiplied
            /\ Len(posts) > 0 =>
                   /\ ret.score[2] > 0
                   /\ ret.score[1] * Len(posts) = valid_count * ret.score[2]
            /\ ret.attributes = [valid_urls_percentage |-> RMul(Num(100), ret.score)]

\* C8 witness: two posts, one with a URL of its platform and one without a
\* platform: the score is 1/2, the skipped post counting in the denominator.
C8_SkippedPostInDenominatorWitness ==
    /\ pc = "returned"
    /\ Len(locals.posts_data.list) = 2
    /\ \E i \in 1..2 : CountsAsValid(locals.posts_data.list[i])
    /\ \E i \in 1..2 : "platform" \notin DOMAIN locals.posts_data.list[i]
    /\ ret.score = Frac(1, 2)

(***************************************************************************)
(* Claims about verify_time_consistency, checked under SpecTime.           *)
(***************************************************************************)
HasParseableTimestamp(post) ==
    "posted_at" \in DOMAIN post /\ ~parse(post.posted_at).raised

Timestamp(post) == parse(post.posted_at).value.t

\* the positions of posts in ascending order of timestamp
Ascending(posts) ==
    CHOOSE p \in [1..Len(posts) -> 1..Len(posts)] :
        /\ \A i, j \in 1..Len(posts) : i # j => p[i] # p[j]
        /\ \A k \in 1..(Len(posts) - 1) :
              Timestamp(posts[p[k]]) <= Timestamp(posts[p[k + 1]])

\* C9: for two or more posts that all carry a parseable posted_at,
\* verify_time_consistency returns clamp(1 - (future_dates +
\* unusual_frequency) / total_posts, 0, 1), future_dates counting the posts
\* later than the current time and unusual_frequency the pairs adjacent in
\* ascending order of timestamp that are less than 10 seconds apart.
C9_TimeScoreFormula ==
    (/\ pc = "returned"
     /\ Len(locals.posts_data.list) >= 2
     /\ \A i \in 1..Len(locals.posts_data.list) :
           HasParseableTimestamp(locals.posts_data.list[i]))
    =>
        LET posts == locals.posts_data.list
            n == Len(posts)
            p == Ascending(posts)
            future_dates == Cardinality({i \in 1..n : Timestamp(posts[i]) > now})
            unusual_frequency ==
                Cardinality({k \in 1..(n - 1) :
                    Timestamp(posts[p[k + 1]]) - Timestamp(posts[p[k]]) < 10})
        IN  /\ ~ret.raised
            /\ ret.score = RMax(Zero, RMin(One,
                               RSub(One, Frac(future_dates + unusual_frequency, n))))

\* the walk fails on a post without posted_at: parse(None) raises, while
\* the sort key reads the default date
FailsInWalk(post) == "posted_at" \notin DOMAIN post

HasAwareTimestamp(post) ==
    HasParseableTimestamp(post) /\ parse(post.posted_at).value.aware

Kept(posts) == SelectSeq(posts, LAMBDA post : ~FailsInWalk(post))

\* C12: with two or more posts that pass the sort step (each post has an
\* offset-aware parseable posted_at or none at all) and at least one post
\* failing in the walk, verify_time_consistency returns normally, and its
\* counts are those of the remaining posts alone: future_dates counts the
\* remaining posts later than the current time, unusual_frequency the pairs
\* of remaining posts adjacent in ascending order less than 10 seconds
\* apart (the skipped post does not stand between them), while the score
\* and the percentage divide by the number of all posts.
C12_FailedPostSkippedInWalk ==
    (/\ pc = "returned"
     /\ Len(locals.posts_data.list) >= 2
     /\ \A i \in 1..Len(locals.posts_data.list) :
           \/ FailsInWalk(locals.posts_data.list[i])
           \/ HasAwareTimestamp(locals.posts_data.list[i])
     /\ \E i \in 1..Len(locals.posts_data.list) :
           FailsInWalk(locals.posts_data.list[i]))
    =>
        LET total_posts == Len(locals.posts_data.list)
            kept == Kept(locals.posts_data.list)
            p == Ascending(kept)
            future_dates ==
                Cardinality({i \in 1..Len(kept) : Timestamp(kept[i]) > now})
            unusual_frequency ==
                Cardinality({k \in 1..(Len(kept) - 1) :
                    Timestamp(kept[p[k + 1]]) - Timestamp(kept[p[k]]) < 10})
            issues == Frac(future_dates + unusual_frequency, total_posts)
        IN  /\ ~ret.raised
            /\ ret.score = RMax(Zero, RMin(One, RSub(One, issues)))
            /\ ret.attributes =
                   [time_consistency_issues |-> RMul(Num(100), issues),
                    future_dates |-> Num(future_dates),
                    unusual_posting_frequency |-> Num(unusual_frequency)]

\* C12 witness: three posts, the one without posted_at sorted between two
\* posts 8 seconds apart: the pair is flagged across the skipped post and
\* the score is 1 - 1/3.
C12_SkippedBetweenTwoPostsWitness ==
    /\ pc = "returned"
    /\ Len(locals.posts_data.list) = 3
    /\ \E i, j, k \in 1..3 :
          /\ FailsInWalk(locals.posts_data.list[i])
          /\ Get(locals.posts_data.list[j], "posted_at", None)
                 = Str("1999-12-31T23:59:55Z")
          /\ Get(locals.posts_data.list[k], "posted_at", None)
                 = Str("2000-01-01T00:00:03Z")
    /\ ~ret.raised
    /\ ret.attributes.unusual_posting_frequency = Num(1)
    /\ ret.score = Frac(2, 3)

(***************************************************************************)
(* Claims about verify_ownership, checked under SpecOwnership.             *)
(***************************************************************************)
EmailUnset == "user_email" \notin DOMAIN config \/ config.user_email \in {None, Str("")}

UserIdMatches(post, account) ==
    "user_id" \in DOMAIN post /\ post.user_id = Get(account, "user_id", Str(""))

UrlHasUsername(post, account) ==
    Contains(Get(account, "username", Str("")).str, Get(post, "post_url", Str("")).str)

\* C10: verify_ownership returns 0.4*email_match + 0.3*user_id_score +
\* 0.3*url_score, with email_match 1 when no email is configured or the
\* configured email is the account's, and the two scores the fractions of
\* posts matching on user_id and on username; it is exactly 1.0 when no
\* email is configured and every post matches on both, and 0.0 with empty
\* attributes when the account or the posts are absent or empty.
C10_OwnershipIsWeightedSum ==
    pc = "returned" =>
        IF Falsy(locals.account_data) \/ Falsy(locals.posts_data)
        THEN ret = Returned(Zero, EmptyDict)
        ELSE
        LET account == locals.account_data.dict
            posts == locals.posts_data.list
            n == Len(posts)
            email_match ==
                IF EmailUnset \/ config.user_email = Get(account, "email", Str(""))
                THEN 1 ELSE 0
            user_id_matches == Cardinality({i \in 1..n : UserIdMatches(posts[i], account)})
            url_matches == Cardinality({i \in 1..n : UrlHasUsername(posts[i], account)})
        IN  /\ ~ret.raised
            \* 10 * n * score = 4 * n * email_match + 3 * matches + 3 * matches
            /\ ret.score[2] > 0
            /\ 10 * n * ret.score[1]
                   = (4 * n * email_match + 3 * user_id_matches + 3 * url_matches)
                     * ret.score[2]
            /\ (EmailUnset /\ user_id_matches = n /\ url_matches = n) => ret.score = One

\* C10 witness: no email configured and two posts that both match on
\* user_id and username: the ownership score is exactly 1.
C10_FullOwnershipWitness ==
    /\ pc = "returned"
    /\ EmailUnset
    /\ locals.account_data = Alice
    /\ ~Falsy(locals.posts_data)
    /\ Len(locals.posts_data.list) = 2
    /\ \A i \in 1..2 :
          /\ UserIdMatches(locals.posts_data.list[i], Alice.dict)
          /\ UrlHasUsername(locals.posts_data.list[i], Alice.dict)
    /\ ret.score = One

(***************************************************************************)
(* Claims about the life of the result object, checked under SpecTwice.    *)
(***************************************************************************)
VerifierPositions ==
    {"verify_ownership", "assess_quality", "verify_authenticity",
     "verify_time_consistency", "verify_uniqueness"}

AssignPositions ==
    {"attributes", "ownership", "quality", "uniqueness", "authenticity",
     "score", "valid", "metadata"}

FailedClosed ==
    /\ raised'
    /\ pc' = "done"
    /\ proof_response' = [proof_response EXCEPT !.valid = FALSE, !.score = Zero]

\* C11 as stated: once a verifier has returned and the next one is about to
\* run, the result already holds the returned score (ownership after
\* verify_ownership, quality after assess_quality), and the result does not
\* change once generate has returned.
C11_WrittenBeforeNextVerifier ==
    /\ [](pc \in VerifierPositions \ {"verify_ownership"}
             => proof_response.ownership = locals.ownership_score)
    /\ [](pc \in VerifierPositions \ {"verify_ownership", "assess_quality"}
             => proof_response.quality = locals.quality_score)
    /\ [][(pc = "done" /\ pc' = "done") => proof_response' = proof_response]_vars

\* C11, amended: the result is not written while the verifiers run (all five
\* return into local variables first, and a verifier that raises leaves only
\* valid = false and score = 0 behind); afterwards each statement writes the
\* one field it names, in the order attributes, ownership, quality,
\* uniqueness, authenticity, score, valid, metadata; once generate has
\* returned the result changes only when a new run constructs a new one.
C11_ResultWrittenAfterAllVerifiers ==
    [][/\ pc \in VerifierPositions \cup {"generate"} =>
             \/ proof_response' = proof_response
             \/ pc \in VerifierPositions /\ FailedClosed
       /\ pc \in AssignPositions =>
             \/ \A f \in DOMAIN proof_response :
                   f # pc => proof_response'[f] = proof_response[f]
             \/ pc = "metadata" /\ FailedClosed
       /\ pc = "done" =>
             \/ proof_response' = proof_response
             \/ pc' = "generate" /\ proof_response' = NewProofResponse]_vars

\* C11 witness: four verifiers have returned, ownership is 1 in the local
\* variables, and the result still is as constructed.
C11_ScoresHeldInLocalsWitness ==
    /\ pc = "verify_uniqueness"
    /\ prev = NoRun
    /\ locals.ownership_score = One
    /\ proof_response = NewProofResponse
    /\ proof_response.ownership = Zero

(***************************************************************************)
(* Claims about the media similarity, checked under SpecMedia.             *)
(***************************************************************************)
ReferenceCorpus ==
    IF "reference.json" \in DOMAIN files THEN files["reference.json"].list ELSE <<>>

UrlOf(item) == IF "url" \in DOMAIN item THEN item.url ELSE ""

MediaOf(post) == IF "media" \in DOMAIN post THEN post.media ELSE <<>>

\* the media items of the reference posts whose URL is one of the post's
Matched(media) ==
    {rk \in (1..Len(ReferenceCorpus)) \X (1..MaxMedia) :
        /\ rk[2] <= Len(MediaOf(ReferenceCorpus[rk[1]]))
        /\ \E k \in 1..Len(media) :
              UrlOf(MediaOf(ReferenceCorpus[rk[1]])[rk[2]]) = UrlOf(media[k])}

\* C13: with a non-empty reference corpus and a post that has media,
\* _compute_media_similarity returns min(1, matched / count), every matching
\* media item of every reference post adding 1 to matched; the similarity
\* lies in [0, 1]; verify_uniqueness reports, for the one post, the media
\* uniqueness 1 - similarity (as a percentage), and 1.0 when the reference
\* corpus is empty.
C13_MediaSimilarityCapped ==
    pc = "returned" =>
        LET media == locals.media
            raw == Frac(Cardinality(Matched(media)), Len(media))
            similarity ==
                IF ReferenceCorpus # <<>> /\ media # <<>>
                THEN (IF RLe(raw, One) THEN raw ELSE One)
                ELSE Zero
        IN  IF "similarity" \in DOMAIN ret
            THEN /\ ret.similarity = similarity
                 /\ InUnit(ret.similarity)
            ELSE /\ ~ret.raised
                 /\ ret.attributes.media_uniqueness
                        = RMul(Num(100), RSub(One, similarity))
                 /\ RLe(Zero, ret.attributes.media_uniqueness)
                 /\ RLe(ret.attributes.media_uniqueness, Num(100))
                 /\ ReferenceCorpus = <<>> => ret.attributes.media_uniqueness = Num(100)

\* C13 witness: one media item that two media items of the reference corpus
\* match: the raw ratio is 2 and the similarity returned is 1.
C13_RatioAboveOneWitness ==
    /\ pc = "returned"
    /\ "similarity" \in DOMAIN ret
    /\ Len(locals.media) = 1
    /\ Cardinality(Matched(locals.media)) = 2
    /\ ret.similarity = One

====
